---- MODULE Spec2Model ----
(***************************************************************************)
(* PR Maintainability Checker (src/app.js): the pull_request handler, its   *)
(* three metric extractors and the comment it composes.                     *)
(*                                                                          *)
(* Text is a sequence of one-character strings.  The fixed fragments of the *)
(* comment template are single tokens; "\n" is always a token of its own.   *)
(***************************************************************************)
EXTENDS Integers, Sequences, FiniteSets, TLC

\* ------------------------------------------------------------------------
\* Characters
\* ------------------------------------------------------------------------

UpperChars == <<"A","B","C","D","E","F","G","H","I","J","K","L","M",
                "N","O","P","Q","R","S","T","U","V","W","X","Y","Z">>

LowerChars == <<"a","b","c","d","e","f","g","h","i","j","k","l","m",
                "n","o","p","q","r","s","t","u","v","w","x","y","z">>

DigitChars == <<"0","1","2","3","4","5","6","7","8","9">>

Range(seq) == {seq[k] : k \in DOMAIN seq}

\* \w of a JavaScript regular expression
WordChars == Range(UpperChars) \cup Range(LowerChars) \cup Range(DigitChars) \cup {"_"}

\* \s of a JavaScript regular expression, and what String.prototype.trim removes
SpaceChars == {" ", "\t", "\n", "\r", "\f"}

\* what "." does not match
LineTerminators == {"\n", "\r"}

\* the canonical form the "i" flag compares characters in
ToLower(c) ==
    IF \E k \in DOMAIN UpperChars : UpperChars[k] = c
    THEN LowerChars[CHOOSE k \in DOMAIN UpperChars : UpperChars[k] = c]
    ELSE c

\* ------------------------------------------------------------------------
\* Regular expressions, matched as a backtracking engine matches them:
\* Ends(re, s, i, ci) is the sequence of positions at which a match of re
\* starting at position i of s can end, in the order the engine tries them
\* (greedy quantifiers first, alternatives left to right).  The match the
\* engine reports is the first one.
\* ------------------------------------------------------------------------

Chr(c)   == [t |-> "chr", c |-> c]
Cls(S)   == [t |-> "cls", s |-> S]
Dot      == [t |-> "dot"]
Bol      == [t |-> "bol"]
Cat(rs)  == [t |-> "cat", rs |-> rs]
Alt(rs)  == [t |-> "alt", rs |-> rs]
Star(r)  == [t |-> "star", r |-> r]
Opt(r)   == [t |-> "opt", r |-> r]
Plus(r)  == Cat(<<r, Star(r)>>)
Lit(str) == Cat([k \in 1..Len(str) |-> Chr(str[k])])

RECURSIVE Ends(_, _, _, _), EndsFrom(_, _, _, _), AltEnds(_, _, _, _)

EndsFrom(re, s, starts, ci) ==
    IF starts = <<>> THEN <<>>
    ELSE Ends(re, s, Head(starts), ci) \o EndsFrom(re, s, Tail(starts), ci)

AltEnds(rs, s, i, ci) ==
    IF rs = <<>> THEN <<>>
    ELSE Ends(Head(rs), s, i, ci) \o AltEnds(Tail(rs), s, i, ci)

Ends(re, s, i, ci) ==
    CASE re.t = "chr" ->
           IF i <= Len(s) /\ (IF ci THEN ToLower(s[i]) = ToLower(re.c) ELSE s[i] = re.c)
           THEN <<i + 1>> ELSE <<>>
      [] re.t = "cls" -> IF i <= Len(s) /\ s[i] \in re.s THEN <<i + 1>> ELSE <<>>
      [] re.t = "dot" -> IF i <= Len(s) /\ s[i] \notin LineTerminators THEN <<i + 1>> ELSE <<>>
      [] re.t = "bol" -> IF i = 1 \/ s[i - 1] \in LineTerminators THEN <<i>> ELSE <<>>
      [] re.t = "cat" ->
           IF re.rs = <<>> THEN <<i>>
           ELSE EndsFrom(Cat(Tail(re.rs)), s, Ends(Head(re.rs), s, i, ci), ci)
      [] re.t = "alt" -> AltEnds(re.rs, s, i, ci)
      [] re.t = "opt" -> Ends(re.r, s, i, ci) \o <<i>>
      [] re.t = "star" ->
           EndsFrom(re, s, SelectSeq(Ends(re.r, s, i, ci), LAMBDA e : e > i), ci) \o <<i>>

\* The "g" flag: the matches of re in s from left to right, each search resuming
\* where the previous match ended (one further on after an empty match).
RECURSIVE MatchesFrom(_, _, _, _, _)
MatchesFrom(re, s, starts, last, ci) ==
    LET cands == {p \in starts : p >= last} IN
    IF cands = {} THEN <<>>
    ELSE LET p == CHOOSE q \in cands : \A r \in cands : q <= r
             e == Head(Ends(re, s, p, ci))
         IN  <<[from |-> p, to |-> e]>>
             \o MatchesFrom(re, s, starts, IF e = p THEN p + 1 ELSE e, ci)

MatchAll(re, s, ci) ==
    MatchesFrom(re, s, {p \in 1..(Len(s) + 1) : Ends(re, s, p, ci) # <<>>}, 1, ci)


\* ------------------------------------------------------------------------
\* String helpers (String.prototype.trim / startsWith / endsWith / split)
\* ------------------------------------------------------------------------

Trim(s) ==
    LET keep == {k \in 1..Len(s) : s[k] \notin SpaceChars} IN
    IF keep = {} THEN <<>>
    ELSE SubSeq(s, CHOOSE k \in keep : \A j \in keep : k <= j,
                   CHOOSE k \in keep : \A j \in keep : k >= j)

StartsWith(s, prefix) ==
    Len(s) >= Len(prefix) /\ SubSeq(s, 1, Len(prefix)) = prefix

EndsWith(s, suffix) ==
    Len(s) >= Len(suffix) /\ SubSeq(s, Len(s) - Len(suffix) + 1, Len(s)) = suffix

\* the positions at which the pieces of s.split('\n') start
LineStarts(s) == {1} \cup {k + 1 : k \in {j \in 1..Len(s) : s[j] = "\n"}}

\* the piece of s.split('\n') that starts at st
LineAt(s, st) ==
    LET en == CHOOSE k \in st..(Len(s) + 1) :
                  /\ k = Len(s) + 1 \/ s[k] = "\n"
                  /\ \A q \in st..(k - 1) : s[q] # "\n"
    IN  SubSeq(s, st, en - 1)

\* ------------------------------------------------------------------------
\* Metric extractors
\* ------------------------------------------------------------------------

\* the filter of countLines: the trimmed line is non-empty and starts with none
\* of //, /*, *, "import ", "export "
IsCodeLine(line) ==
    LET trimmed == Trim(line) IN
    /\ trimmed # <<>>
    /\ ~StartsWith(trimmed, <<"/", "/">>)
    /\ ~StartsWith(trimmed, <<"/", "*">>)
    /\ ~StartsWith(trimmed, <<"*">>)
    /\ ~StartsWith(trimmed, <<"i", "m", "p", "o", "r", "t", " ">>)
    /\ ~StartsWith(trimmed, <<"e", "x", "p", "o", "r", "t", " ">>)

countLines(content) ==
    Cardinality({st \in LineStarts(content) : IsCodeLine(LineAt(content, st))})

RxS == Cls(SpaceChars)
RxW == Cls(WordChars)
RxFunction == Lit(<<"f", "u", "n", "c", "t", "i", "o", "n">>)

\* /(?:function\s+\w+|\w+\s*=\s*\(.*\)\s*=>|\w+\s*:\s*function|^\s*\w+\(.*\)\s*{)/gm
functionRegex ==
    Alt(<< Cat(<<RxFunction, Plus(RxS), Plus(RxW)>>),
           Cat(<<Plus(RxW), Star(RxS), Chr("="), Star(RxS), Chr("("), Star(Dot),
                 Chr(")"), Star(RxS), Chr("="), Chr(">")>>),
           Cat(<<Plus(RxW), Star(RxS), Chr(":"), Star(RxS), RxFunction>>),
           Cat(<<Bol, Star(RxS), Plus(RxW), Chr("("), Star(Dot), Chr(")"),
                 Star(RxS), Chr("{")>>) >>)

\* /(?:const|let|var)\s+\w+\s*=\s*\(.*\)\s*=>/gm
arrowFunctionRegex ==
    Cat(<< Alt(<<Lit(<<"c", "o", "n", "s", "t">>), Lit(<<"l", "e", "t">>),
                 Lit(<<"v", "a", "r">>)>>),
           Plus(RxS), Plus(RxW), Star(RxS), Chr("="), Star(RxS), Chr("("), Star(Dot),
           Chr(")"), Star(RxS), Chr("="), Chr(">") >>)

\* /function\s+\w+\s*\(.*\)\s*{/gm
regularFunctionRegex ==
    Cat(<< RxFunction, Plus(RxS), Plus(RxW), Star(RxS), Chr("("), Star(Dot),
           Chr(")"), Star(RxS), Chr("{") >>)

countMethods(content) ==
    LET functionMatches == Len(MatchAll(functionRegex, content, FALSE))
        arrowMatches    == Len(MatchAll(arrowFunctionRegex, content, FALSE))
        regularMatches  == Len(MatchAll(regularFunctionRegex, content, FALSE))
    IN  functionMatches + arrowMatches + regularMatches

\* /(\/\/|#|\*)\s*(TODO|FIXME):?\s*(.*)/gi
todoRegex ==
    Cat(<< Alt(<<Lit(<<"/", "/">>), Chr("#"), Chr("*")>>),
           Star(RxS),
           Alt(<<Lit(<<"T", "O", "D", "O">>), Lit(<<"F", "I", "X", "M", "E">>)>>),
           Opt(Chr(":")), Star(RxS), Star(Dot) >>)

findTodos(content) ==
    LET matches == MatchAll(todoRegex, content, TRUE) IN
    [k \in 1..Len(matches) |-> Trim(SubSeq(content, matches[k].from, matches[k].to - 1))]


\* ------------------------------------------------------------------------
\* Values of the API surface
\* ------------------------------------------------------------------------

\* a JavaScript value that may be undefined
Undefined   == [defined |-> FALSE, value |-> <<>>]
Defined(v)  == [defined |-> TRUE, value |-> v]

\* the truthiness of a string that may be undefined (file.patch)
Truthy(v) == v.defined /\ v.value # <<>>

\* mutant: the guard clause lets every payload through
HasInstallationIdUnchecked(payload) == TRUE

\* the truthiness of context.payload.installation?.id: ids are positive numbers
HasInstallationId(payload) == payload.installation.defined /\ payload.installation.value > 0

ChangedFile(filename, patch) == [filename |-> filename, patch |-> patch]

Patch == Defined(<<"@", "@">>)

Str_js           == <<".", "j", "s">>
Str_ts           == <<".", "t", "s">>
Str_tsx          == <<".", "t", "s", "x">>
Str_package_json == <<"p", "a", "c", "k", "a", "g", "e", ".", "j", "s", "o", "n">>
Str_package_lock == <<"p", "a", "c", "k", "a", "g", "e", "-", "l", "o", "c", "k",
                      ".", "j", "s", "o", "n">>

\* ------------------------------------------------------------------------
\* The handler's synchronous pieces
\* ------------------------------------------------------------------------

\* mutant: the filter looks at the extension only
ShouldAnalyzeWithoutPatchCheck(file) ==
    \/ EndsWith(file.filename, Str_js)
    \/ EndsWith(file.filename, Str_tsx)
    \/ EndsWith(file.filename, Str_ts)

\* the condition under which a changed file is fetched and measured
ShouldAnalyze(file) ==
    /\ \/ EndsWith(file.filename, Str_js)
       \/ EndsWith(file.filename, Str_tsx)
       \/ EndsWith(file.filename, Str_ts)
    /\ Truthy(file.patch)

LocLimit == 200
NomLimit == 8

NewFindings ==
    [issues |-> <<>>, todoComments |-> <<>>,
     pkgJsonModified |-> FALSE, pkgLockModified |-> FALSE]

\* (in the template fragments the backquote is written ' and the emoji by name)
\* Number -> decimal string, as a template literal formats a non-negative integer
RECURSIVE ToDigits(_)
ToDigits(n) ==
    IF n < 10 THEN <<DigitChars[n + 1]>>
    ELSE Append(ToDigits(n \div 10), DigitChars[(n % 10) + 1])

LocIssue(filename, loc) ==
    <<"- '">> \o filename \o <<"': LOC = ">> \o ToDigits(loc) \o <<" (fire)">>

NomIssue(filename, nom) ==
    <<"- '">> \o filename \o <<"': Method Count = ">> \o ToDigits(nom) \o <<" (brain)">>

TodoEntry(filename, todo) ==
    <<"- '">> \o filename \o <<"': ">> \o todo

\* what the three extractors return for one decoded file
Measure(content) ==
    [loc |-> countLines(content), nom |-> countMethods(content),
     todos |-> findTodos(content)]

\* mutant: the limits themselves already raise an issue
RecordFindingsAtLimit(filename, m, acc) ==
    LET withLoc == IF m.loc >= LocLimit
                   THEN Append(acc.issues, LocIssue(filename, m.loc))
                   ELSE acc.issues
        withNom == IF m.nom >= NomLimit
                   THEN Append(withLoc, NomIssue(filename, m.nom))
                   ELSE withLoc
    IN  [acc EXCEPT !.issues = withNom,
                    !.todoComments =
                        acc.todoComments
                        \o [k \in 1..Len(m.todos) |-> TodoEntry(filename, m.todos[k])]]

\* the threshold checks and the TODO entries of one measured file
RecordFindings(filename, m, acc) ==
    LET withLoc == IF m.loc > LocLimit
                   THEN Append(acc.issues, LocIssue(filename, m.loc))
                   ELSE acc.issues
        withNom == IF m.nom > NomLimit
                   THEN Append(withLoc, NomIssue(filename, m.nom))
                   ELSE withLoc
    IN  [acc EXCEPT !.issues = withNom,
                    !.todoComments =
                        acc.todoComments
                        \o [k \in 1..Len(m.todos) |-> TodoEntry(filename, m.todos[k])]]

\* the package.json / package-lock.json check that ends each iteration
Bookkeeping(filename, acc) ==
    [acc EXCEPT !.pkgJsonModified = acc.pkgJsonModified \/ filename = Str_package_json,
                !.pkgLockModified = acc.pkgLockModified \/ filename = Str_package_lock]

\* Array.prototype.join
RECURSIVE Join(_, _)
Join(parts, sep) ==
    IF parts = <<>> THEN <<>>
    ELSE IF Len(parts) = 1 THEN parts[1]
    ELSE parts[1] \o sep \o Join(Tail(parts), sep)

TitleLine       == "## PR Maintainability Check"
IssuesHeading   == "### Issues Detected:"
NoIssuesLine    == "No major maintainability issues found."
LockfileWarning ==
    "'package.json' was modified but 'package-lock.json' was not. Ensure lockfile is up to date!"
TodoHeading     == "### TODO / FIXME Found:"
TodoReminder    == "Please address these before merging."

\* mutant: the warning is given whenever only one of the two files changed
ComposeWarningEitherWay(acc) ==
    <<TitleLine, "\n", "\n">>
    \o (IF Len(acc.issues) > 0
        THEN <<IssuesHeading, "\n">> \o Join(acc.issues, <<"\n">>) \o <<"\n", "\n">>
        ELSE <<NoIssuesLine, "\n", "\n">>)
    \o (IF acc.pkgJsonModified # acc.pkgLockModified
        THEN <<LockfileWarning, "\n", "\n">>
        ELSE <<>>)
    \o (IF Len(acc.todoComments) > 0
        THEN <<TodoHeading, "\n">> \o Join(acc.todoComments, <<"\n">>)
             \o <<"\n", TodoReminder, "\n">>
        ELSE <<>>)

\* the comment body built from the accumulated findings
Compose(acc) ==
    <<TitleLine, "\n", "\n">>
    \o (IF Len(acc.issues) > 0
        THEN <<IssuesHeading, "\n">> \o Join(acc.issues, <<"\n">>) \o <<"\n", "\n">>
        ELSE <<NoIssuesLine, "\n", "\n">>)
    \o (IF acc.pkgJsonModified /\ ~acc.pkgLockModified
        THEN <<LockfileWarning, "\n", "\n">>
        ELSE <<>>)
    \o (IF Len(acc.todoComments) > 0
        THEN <<TodoHeading, "\n">> \o Join(acc.todoComments, <<"\n">>)
             \o <<"\n", TodoReminder, "\n">>
        ELSE <<>>)

\* mutant: the package check sits inside the branch of the analysed files
RECURSIVE RunLoopCheckingAnalysedOnly(_, _, _)
RunLoopCheckingAnalysedOnly(files, k, acc) ==
    IF k > Len(files) THEN [next |-> "createComment", at |-> k, acc |-> acc]
    ELSE IF ShouldAnalyze(files[k]) THEN [next |-> "getContent", at |-> k, acc |-> acc]
    ELSE RunLoopCheckingAnalysedOnly(files, k + 1, acc)

\* The for-loop from the k-th file up to its next await: files that are not
\* analysed only pass the package check; the loop stops at the first file to
\* fetch, or at the end of the list, where the comment is composed.
RECURSIVE RunLoop(_, _, _)
RunLoop(files, k, acc) ==
    IF k > Len(files) THEN [next |-> "createComment", at |-> k, acc |-> acc]
    ELSE IF ShouldAnalyze(files[k]) THEN [next |-> "getContent", at |-> k, acc |-> acc]
    ELSE RunLoop(files, k + 1, Bookkeeping(files[k].filename, acc))


\* ------------------------------------------------------------------------
\* What the API can answer
\* ------------------------------------------------------------------------

\* n copies of line, joined by "\n"
RepeatLines(line, n) ==
    [k \in 1..(n * (Len(line) + 1) - 1) |->
        LET r == (k - 1) % (Len(line) + 1)
        IN  IF r = Len(line) THEN "\n" ELSE line[r + 1]]

MethodLine == <<"f", "(", ")", "{">>
CodeLine   == <<"x">>

\* The file texts getContent can deliver, by the name their base64 form goes
\* under in the model.
FileTexts ==
    [ \* 200 code lines, 8 of them methods: on both limits
      atLimits |-> RepeatLines(MethodLine, 8) \o <<"\n">> \o RepeatLines(CodeLine, 192),
      \* 201 code lines, no method
      loc201   |-> RepeatLines(CodeLine, 201),
      \* 250 code lines, 9 of them methods, under one TODO comment
      large    |-> <<"/", "/", " ", "T", "O", "D", "O", ":", " ", "s", "p", "l", "i", "t", "\n">>
                   \o RepeatLines(MethodLine, 9) \o <<"\n">> \o RepeatLines(CodeLine, 241),
      \* an import, a TODO and a lower-case fixme, each with its text on its line
      todos    |-> <<"i", "m", "p", "o", "r", "t", " ", "a", "\n",
                     "x", " ", "/", "/", " ", "T", "O", "D", "O", " ", "a", "\n",
                     " ", "*", " ", "f", "i", "x", "m", "e", ":", " ", "b", " ", "\n",
                     "x">>,
      \* a TODO whose text is on the line after it
      todoThenCode |-> <<"/", "/", " ", "T", "O", "D", "O", ":", "\n",
                         "x", " ", "=", " ", "1", ";", "\n", "x">> ]

ContentIds == DOMAIN FileTexts

\* Buffer.from(base64, 'base64').toString() of a delivered content
Base64Decode(id) == FileTexts[id]

\* the three outcomes of octokit.rest.repos.getContent
Rejected(e) == [status |-> "rejected", error |-> e, hasContent |-> FALSE, content |-> ""]
NoContent   == [status |-> "resolved", error |-> "", hasContent |-> FALSE, content |-> ""]
Content(id) == [status |-> "resolved", error |-> "", hasContent |-> TRUE, content |-> id]

\* the extractors' results on every text that can be delivered, evaluated once
Measured == [id \in ContentIds |-> Measure(Base64Decode(id))]

\* ------------------------------------------------------------------------
\* State: one entry per handler invocation
\* ------------------------------------------------------------------------

VARIABLES
    pc,               \* where the invocation stands: idle, at one of its awaits, returned, thrown
    payload,          \* context.payload
    filesChanged,     \* filesChanged.data
    idx,              \* the position of the for-loop in filesChanged.data
    issues,           \* the accumulators of lines 76-79, by the scope that holds them
    todoComments,
    pkgJsonModified,
    pkgLockModified,
    body,             \* the body handed to createComment
    events,           \* the API calls made and their outcomes, in order
    thrown,           \* the error the invocation raised to its caller ("" for none)
    logged            \* what app.log.error was called about

vars == <<pc, payload, filesChanged, idx, issues, todoComments, pkgJsonModified,
          pkgLockModified, body, events, thrown, logged>>

Handlers == DOMAIN pc

\* mutant: the accumulators are declared once, outside the handler
ModuleScope(h) == 1

\* the scope that holds the accumulators of invocation h: they are locals of the call
Scope(h) == h

Event(op, phase, at, resp) == [op |-> op, phase |-> phase, at |-> at, resp |-> resp]

NoResponse == [status |-> "", error |-> "", hasContent |-> FALSE, content |-> ""]

NoPayload == [installation |-> Undefined, number |-> 0]

InitFor(H) ==
    /\ pc = [h \in H |-> "idle"]
    /\ payload = [h \in H |-> NoPayload]
    /\ filesChanged = [h \in H |-> <<>>]
    /\ idx = [h \in H |-> 0]
    /\ issues = [h \in H |-> <<>>]
    /\ todoComments = [h \in H |-> <<>>]
    /\ pkgJsonModified = [h \in H |-> FALSE]
    /\ pkgLockModified = [h \in H |-> FALSE]
    /\ body = [h \in H |-> <<>>]
    /\ events = [h \in H |-> <<>>]
    /\ thrown = [h \in H |-> ""]
    /\ logged = [h \in H |-> <<>>]

Findings(h) ==
    [issues |-> issues[Scope(h)], todoComments |-> todoComments[Scope(h)],
     pkgJsonModified |-> pkgJsonModified[Scope(h)],
     pkgLockModified |-> pkgLockModified[Scope(h)]]

\* The loop runs on from the k-th file with the findings acc, after the events ev:
\* to the next getContent call, or through the composition to the createComment call.
Resume(h, files, k, acc, ev) ==
    LET r == RunLoop(files, k, acc) IN
    /\ issues' = [issues EXCEPT ![Scope(h)] = r.acc.issues]
    /\ todoComments' = [todoComments EXCEPT ![Scope(h)] = r.acc.todoComments]
    /\ pkgJsonModified' = [pkgJsonModified EXCEPT ![Scope(h)] = r.acc.pkgJsonModified]
    /\ pkgLockModified' = [pkgLockModified EXCEPT ![Scope(h)] = r.acc.pkgLockModified]
    /\ idx' = [idx EXCEPT ![h] = r.at]
    /\ pc' = [pc EXCEPT ![h] = r.next]
    /\ events' = [events EXCEPT ![h] = Append(ev, Event(r.next, "call", r.at, NoResponse))]
    /\ body' = [body EXCEPT ![h] = IF r.next = "createComment" THEN Compose(r.acc) ELSE @]

\* the outer catch: log the error and throw it again
Rethrow(h, error, ev) ==
    /\ pc' = [pc EXCEPT ![h] = "thrown"]
    /\ thrown' = [thrown EXCEPT ![h] = error]
    /\ logged' = [logged EXCEPT ![h] = Append(@, <<"Error processing PR:", error>>)]
    /\ events' = [events EXCEPT ![h] = ev]

\* ------------------------------------------------------------------------
\* The handler, one action per stretch between two awaits
\* ------------------------------------------------------------------------

\* The event arrives without an installation id: log and return.
MissingInstallation(h, payloads) ==
    /\ pc[h] = "idle"
    /\ \E p \in payloads :
         /\ ~HasInstallationId(p)
         /\ payload' = [payload EXCEPT ![h] = p]
    /\ pc' = [pc EXCEPT ![h] = "returned"]
    /\ logged' = [logged EXCEPT ![h] = Append(@, <<"Missing installation ID", "">>)]
    /\ UNCHANGED <<filesChanged, idx, issues, todoComments, pkgJsonModified,
                   pkgLockModified, body, events, thrown>>

\* The event arrives with an installation id: ask for the changed files.
CallListFiles(h, payloads) ==
    /\ pc[h] = "idle"
    /\ \E p \in payloads :
         /\ HasInstallationId(p)
         /\ payload' = [payload EXCEPT ![h] = p]
    /\ pc' = [pc EXCEPT ![h] = "listFiles"]
    /\ events' = [events EXCEPT ![h] = Append(@, Event("listFiles", "call", 0, NoResponse))]
    /\ UNCHANGED <<filesChanged, idx, issues, todoComments, pkgJsonModified,
                   pkgLockModified, body, thrown, logged>>

\* listFiles rejects: the outer catch logs and rethrows.
ListFilesFails(h, errors) ==
    /\ pc[h] = "listFiles"
    /\ \E e \in errors :
         Rethrow(h, e, Append(events[h], Event("listFiles", "rejected", 0, Rejected(e))))
    /\ UNCHANGED <<payload, filesChanged, idx, issues, todoComments, pkgJsonModified,
                   pkgLockModified, body>>

\* listFiles resolves: fresh accumulators, then the loop up to its first await.
ListFilesReturns(h, lists) ==
    /\ pc[h] = "listFiles"
    /\ \E files \in lists :
         /\ filesChanged' = [filesChanged EXCEPT ![h] = files]
         /\ Resume(h, files, 1, NewFindings,
                   Append(events[h], Event("listFiles", "resolved", 0, NoResponse)))
    /\ UNCHANGED <<payload, thrown, logged>>

\* mutant: no inner catch, a rejected getContent reaches the outer one
GetContentFailsUncaught(h, errors) ==
    /\ pc[h] = "getContent"
    /\ \E e \in errors :
         Rethrow(h, e, Append(events[h], Event("getContent", "rejected", idx[h], Rejected(e))))
    /\ UNCHANGED <<payload, filesChanged, idx, issues, todoComments, pkgJsonModified,
                   pkgLockModified, body>>

\* getContent rejects for the file at idx: the inner catch logs, the iteration
\* ends with the package check and the loop goes on.
GetContentFails(h, errors) ==
    /\ pc[h] = "getContent"
    /\ \E e \in errors :
         LET file == filesChanged[h][idx[h]] IN
         /\ logged' = [logged EXCEPT ![h] = Append(@, <<"Error analyzing", e>>)]
         /\ Resume(h, filesChanged[h], idx[h] + 1,
                   Bookkeeping(file.filename, Findings(h)),
                   Append(events[h], Event("getContent", "rejected", idx[h], Rejected(e))))
    /\ UNCHANGED <<payload, filesChanged, thrown>>

\* mutant: the decoding stands outside the inner try, its TypeError reaches the outer catch
GetContentReturnsDecodingOutsideTry(h, responses) ==
    /\ pc[h] = "getContent"
    /\ \E resp \in responses :
         LET file == filesChanged[h][idx[h]]
             ev   == Append(events[h], Event("getContent", "resolved", idx[h], resp))
         IN
         IF resp.hasContent
         THEN /\ Resume(h, filesChanged[h], idx[h] + 1,
                        Bookkeeping(file.filename,
                                    RecordFindings(file.filename, Measured[resp.content],
                                                   Findings(h))),
                        ev)
              /\ UNCHANGED <<thrown, logged>>
         ELSE /\ Rethrow(h, "TypeError", ev)
              /\ UNCHANGED <<idx, issues, todoComments, pkgJsonModified,
                             pkgLockModified, body>>
    /\ UNCHANGED <<payload, filesChanged>>

\* getContent resolves for the file at idx: decode (a response without content
\* makes Buffer.from throw, into the inner catch), measure, record, then the
\* package check and the loop goes on.
GetContentReturns(h, responses) ==
    /\ pc[h] = "getContent"
    /\ \E resp \in responses :
         LET file == filesChanged[h][idx[h]]
             acc  == IF resp.hasContent
                     THEN RecordFindings(file.filename, Measured[resp.content], Findings(h))
                     ELSE Findings(h)
         IN
         /\ logged' = [logged EXCEPT ![h] =
                          IF resp.hasContent THEN @
                          ELSE Append(@, <<"Error analyzing", "TypeError">>)]
         /\ Resume(h, filesChanged[h], idx[h] + 1,
                   Bookkeeping(file.filename, acc),
                   Append(events[h], Event("getContent", "resolved", idx[h], resp)))
    /\ UNCHANGED <<payload, filesChanged, thrown>>

\* createComment resolves: the handler returns.
CreateCommentReturns(h) ==
    /\ pc[h] = "createComment"
    /\ pc' = [pc EXCEPT ![h] = "returned"]
    /\ events' = [events EXCEPT ![h] =
                     Append(@, Event("createComment", "resolved", 0, NoResponse))]
    /\ UNCHANGED <<payload, filesChanged, idx, issues, todoComments, pkgJsonModified,
                   pkgLockModified, body, thrown, logged>>

\* mutant: a rejected createComment is tried again
CreateCommentRetries(h, errors) ==
    /\ pc[h] = "createComment"
    /\ Len(events[h]) < 16
    /\ \E e \in errors :
         events' = [events EXCEPT ![h] =
                       @ \o << Event("createComment", "rejected", 0, Rejected(e)),
                               Event("createComment", "call", idx[h], NoResponse) >>]
    /\ UNCHANGED <<pc, payload, filesChanged, idx, issues, todoComments, pkgJsonModified,
                   pkgLockModified, body, thrown, logged>>

\* createComment rejects: the outer catch logs and rethrows.
CreateCommentFails(h, errors) ==
    /\ pc[h] = "createComment"
    /\ \E e \in errors :
         Rethrow(h, e, Append(events[h], Event("createComment", "rejected", 0, Rejected(e))))
    /\ UNCHANGED <<payload, filesChanged, idx, issues, todoComments, pkgJsonModified,
                   pkgLockModified, body>>

\* ------------------------------------------------------------------------
\* Inputs and specifications
\* ------------------------------------------------------------------------

MaxFiles        == 3
MaxContentFiles == 3
MaxConcFiles    == 2

BoundedSeq(S, n) == UNION {[1..k -> S] : k \in 0..n}

File_a_js         == <<"a", ".", "j", "s">>
File_b_png        == <<"b", ".", "p", "n", "g">>
File_c_ts         == <<"c", ".", "t", "s">>
File_d_tsx        == <<"d", ".", "t", "s", "x">>
File_e_jsx        == <<"e", ".", "j", "s", "x">>
File_lib_pkg_json == <<"l", "i", "b", "/">> \o Str_package_json

\* the example list of the specification's section 8
ExampleFiles ==
    << ChangedFile(File_a_js, Patch), ChangedFile(File_b_png, Patch),
       ChangedFile(Str_package_json, Patch), ChangedFile(Str_package_lock, Undefined) >>

\* changed files of every kind the eligibility filter and the package check tell apart
PathFiles ==
    Range(ExampleFiles)
    \cup { ChangedFile(File_a_js, Undefined), ChangedFile(File_c_ts, Patch),
           ChangedFile(File_d_tsx, Patch), ChangedFile(File_d_tsx, Defined(<<>>)),
           ChangedFile(File_e_jsx, Patch), ChangedFile(File_lib_pkg_json, Patch) }

ContentFiles ==
    { ChangedFile(File_a_js, Patch), ChangedFile(File_c_ts, Patch) }

ConcFiles ==
    { ChangedFile(File_a_js, Patch), ChangedFile(Str_package_json, Patch),
      ChangedFile(Str_package_lock, Patch) }

Payloads ==
    { [installation |-> Undefined, number |-> 1], [installation |-> Defined(7), number |-> 1] }

\* the second invocation is for the same pull request as the first, or for another
ConcPayloads(h) ==
    { [installation |-> Defined(7), number |-> n] : n \in 1..h }

ListErrors    == {"HttpError 403", "HttpError 500"}
ContentErrors == {"HttpError 404"}
CommentErrors == {"HttpError 401", "HttpError 502"}

PathLists    == BoundedSeq(PathFiles, MaxFiles) \cup {ExampleFiles}
ContentLists == BoundedSeq(ContentFiles, MaxContentFiles)
ConcLists    == BoundedSeq(ConcFiles, MaxConcFiles)

PathResponses    == {Content("large")}
ContentResponses == {NoContent} \cup {Content(id) : id \in ContentIds}
ConcResponses    == {Content("large")}

\* one invocation, every kind of changed file, few file texts
OneHandler == {1}
Init == InitFor(OneHandler)
Next ==
    \E h \in OneHandler :
        \/ MissingInstallation(h, Payloads)
        \/ CallListFiles(h, Payloads)
        \/ ListFilesFails(h, ListErrors)
        \/ ListFilesReturns(h, PathLists)
        \/ GetContentFails(h, ContentErrors)
        \/ GetContentReturns(h, PathResponses)
        \/ CreateCommentReturns(h)
        \/ CreateCommentFails(h, CommentErrors)
Spec == Init /\ [][Next]_vars

\* one invocation, few changed files, every file text
NextContent ==
    \E h \in OneHandler :
        \/ MissingInstallation(h, Payloads)
        \/ CallListFiles(h, Payloads)
        \/ ListFilesFails(h, ListErrors)
        \/ ListFilesReturns(h, ContentLists)
        \/ GetContentFails(h, ContentErrors)
        \/ GetContentReturns(h, ContentResponses)
        \/ CreateCommentReturns(h)
        \/ CreateCommentFails(h, {"HttpError 502"})
SpecContent == Init /\ [][NextContent]_vars

\* two invocations interleaving at their awaits
TwoHandlers == {1, 2}
InitConc == InitFor(TwoHandlers)
NextConc ==
    \E h \in TwoHandlers :
        \/ MissingInstallation(h, Payloads)
        \/ CallListFiles(h, ConcPayloads(h))
        \/ ListFilesFails(h, ListErrors)
        \/ ListFilesReturns(h, ConcLists)
        \/ GetContentFails(h, ContentErrors)
        \/ GetContentReturns(h, ConcResponses)
        \/ CreateCommentReturns(h)
        \/ CreateCommentFails(h, CommentErrors)
SpecConc == InitConc /\ [][NextConc]_vars

\* ------------------------------------------------------------------------
\* Vocabulary of the properties, stated on the recorded events and the
\* changed-files list rather than through the handler's own operators
\* ------------------------------------------------------------------------

EventsOf(h, op, phases) ==
    {j \in DOMAIN events[h] : events[h][j].op = op /\ events[h][j].phase \in phases}

Completed == {"resolved", "rejected"}

ListResolved(h) == EventsOf(h, "listFiles", {"resolved"}) # {}
Composed(h)     == EventsOf(h, "createComment", {"call"}) # {}
Finished(h)     == pc[h] \in {"returned", "thrown"}

\* the positions in the list getContent was called for / has completed for
FetchCalled(h) == {events[h][j].at : j \in EventsOf(h, "getContent", {"call"})}
FetchDone(h)   == {events[h][j].at : j \in EventsOf(h, "getContent", Completed)}

\* the outcome of the fetch of the k-th file (NoResponse while there is none)
FetchResult(h, k) ==
    LET js == {j \in EventsOf(h, "getContent", Completed) : events[h][j].at = k} IN
    IF js = {} THEN NoResponse ELSE events[h][CHOOSE j \in js : TRUE].resp

\* the fetch of the k-th file delivered a text / failed (rejected, or undecodable)
FetchSucceeded(h, k) == FetchResult(h, k).hasContent
FetchFailed(h, k)    == k \in FetchDone(h) /\ ~FetchResult(h, k).hasContent

HasExtension(filename, ext) ==
    \E n \in 0..Len(filename) : filename = SubSeq(filename, 1, n) \o ext

\* an eligible file, in the words of the specification
Eligible(file) ==
    /\ \E ext \in {<<".", "j", "s">>, <<".", "t", "s">>, <<".", "t", "s", "x">>} :
           HasExtension(file.filename, ext)
    /\ file.patch.defined
    /\ Len(file.patch.value) > 0

EligibleAt(h) == {k \in DOMAIN filesChanged[h] : Eligible(filesChanged[h][k])}

RECURSIVE Flatten(_)
Flatten(seqs) == IF seqs = <<>> THEN <<>> ELSE Head(seqs) \o Flatten(Tail(seqs))

\* the lines of a text: its pieces between "\n" tokens
RECURSIVE SplitLines(_)
SplitLines(s) ==
    LET nl == {k \in DOMAIN s : s[k] = "\n"} IN
    IF nl = {} THEN <<s>>
    ELSE LET k == CHOOSE j \in nl : \A i \in nl : j <= i
         IN  <<SubSeq(s, 1, k - 1)>> \o SplitLines(SubSeq(s, k + 1, Len(s)))

\* the position of a one-token line among the lines (0 when absent)
LineIndex(lines, token) ==
    LET at == {k \in DOMAIN lines : lines[k] = <<token>>} IN
    IF at = {} THEN 0 ELSE CHOOSE k \in at : \A j \in at : k <= j

\* ------------------------------------------------------------------------
\* Properties
\* ------------------------------------------------------------------------

\* C1: an invocation whose listFiles call succeeded calls createComment exactly
\* once by the time it ends, never more than once, and at the moment of that
\* call the fetch of every eligible changed file has completed (resolved or
\* rejected), whichever of the fetches failed.
C1_CommentOnceAfterAllFetches ==
    \A h \in Handlers :
        LET calls == EventsOf(h, "createComment", {"call"}) IN
        /\ Cardinality(calls) <= 1
        /\ (Finished(h) /\ ListResolved(h)) => Cardinality(calls) = 1
        /\ \A j \in calls : \A k \in EligibleAt(h) :
               \E i \in EventsOf(h, "getContent", Completed) :
                   i < j /\ events[h][i].at = k

\* an invocation has returned after one comment, one fetch having failed and
\* another having succeeded
C1_Witness ==
    \E h \in Handlers :
        /\ pc[h] = "returned"
        /\ Cardinality(EventsOf(h, "createComment", {"call"})) = 1
        /\ \E k1, k2 \in EligibleAt(h) : FetchFailed(h, k1) /\ FetchSucceeded(h, k2)

\* what the k-th file contributes when it is analysed on its own
Standalone(h, k) ==
    RecordFindings(filesChanged[h][k].filename, Measured[FetchResult(h, k).content],
                   NewFindings)

\* C2: a file whose fetch (or decoding) failed contributes no issue line and no
\* TODO entry, every file whose fetch succeeded contributes exactly what it
\* contributes on its own, in list order, and the failure never reaches the
\* caller: an invocation that saw a fetch fail throws only if createComment fails.
C2_FailedFetchSkipsOnlyThatFile ==
    \A h \in Handlers :
        /\ issues[h] =
             Flatten([k \in DOMAIN filesChanged[h] |->
                        IF FetchSucceeded(h, k) THEN Standalone(h, k).issues ELSE <<>>])
        /\ todoComments[h] =
             Flatten([k \in DOMAIN filesChanged[h] |->
                        IF FetchSucceeded(h, k) THEN Standalone(h, k).todoComments
                        ELSE <<>>])
        /\ (\E k \in DOMAIN filesChanged[h] : FetchFailed(h, k)) =>
             /\ thrown[h] \in {""} \cup CommentErrors
             /\ pc[h] = "thrown" => EventsOf(h, "createComment", {"rejected"}) # {}

\* the comment is composed for three eligible files, the fetch of the second
\* having failed: the first and the third each have their issue line and TODO
\* entry in it
C2_Witness ==
    \E h \in Handlers :
        /\ Composed(h)
        /\ Len(filesChanged[h]) = 3
        /\ EligibleAt(h) = {1, 2, 3}
        /\ FetchSucceeded(h, 1) /\ FetchFailed(h, 2) /\ FetchSucceeded(h, 3)
        /\ Len(issues[h]) = 4
        /\ Len(todoComments[h]) = 2
        /\ issues[h][1] # issues[h][3]

\* C3: an event whose payload has no installation makes the handler return
\* normally without any API call.
C3_NoInstallationNoCalls ==
    \A h \in Handlers :
        (pc[h] # "idle" /\ ~payload[h].installation.defined) =>
            /\ pc[h] = "returned"
            /\ events[h] = <<>>
            /\ thrown[h] = ""

\* the handler has returned from an event without installation, having logged it
C3_Witness ==
    \E h \in Handlers :
        /\ pc[h] = "returned"
        /\ ~payload[h].installation.defined
        /\ logged[h] = <<<<"Missing installation ID", "">>>>

\* C4: a rejected listFiles or createComment is the invocation's last API event:
\* the handler has logged that error and thrown that same error, a listFiles
\* failure with no getContent and no createComment call, a createComment
\* failure with exactly one createComment call.
C4_ListOrCommentFailureRethrown ==
    \A h \in Handlers :
        /\ \A j \in EventsOf(h, "listFiles", {"rejected"}) :
               /\ j = Len(events[h])
               /\ pc[h] = "thrown"
               /\ thrown[h] = events[h][j].resp.error
               /\ \E l \in DOMAIN logged[h] : logged[h][l][2] = thrown[h]
               /\ FetchCalled(h) = {}
               /\ ~Composed(h)
        /\ \A j \in EventsOf(h, "createComment", {"rejected"}) :
               /\ j = Len(events[h])
               /\ pc[h] = "thrown"
               /\ thrown[h] = events[h][j].resp.error
               /\ \E l \in DOMAIN logged[h] : logged[h][l][2] = thrown[h]
               /\ Cardinality(EventsOf(h, "createComment", {"call"})) = 1

\* createComment was rejected after a fetch, and the handler has thrown
C4_Witness ==
    \E h \in Handlers :
        /\ pc[h] = "thrown"
        /\ EventsOf(h, "createComment", {"rejected"}) # {}
        /\ FetchDone(h) # {}

IssueTags == {"': LOC = ", "': Method Count = ", "': "}

\* the entry is one of the k-th file's: "- 'filename': ..."
TaggedWith(entry, filename) ==
    /\ StartsWith(entry, <<"- '">> \o filename)
    /\ Len(entry) > Len(filename) + 1
    /\ entry[Len(filename) + 2] \in IssueTags

\* C5: getContent is called only for eligible files (path ending in .js, .ts or
\* .tsx, and a non-empty patch), once each, and for every one of them by the
\* time the comment is composed; every issue line and TODO entry is tagged with
\* the path of an eligible file whose fetch succeeded.
C5_FetchedIffEligible ==
    \A h \in Handlers :
        /\ FetchCalled(h) \subseteq EligibleAt(h)
        /\ Cardinality(EventsOf(h, "getContent", {"call"})) = Cardinality(FetchCalled(h))
        /\ Composed(h) => FetchCalled(h) = EligibleAt(h)
        /\ \A entry \in Range(issues[h]) \cup Range(todoComments[h]) :
               \E k \in EligibleAt(h) :
                   FetchSucceeded(h, k) /\ TaggedWith(entry, filesChanged[h][k].filename)

\* the comment is composed for a list with a .tsx file that was fetched and
\* found issues, and a .js file without patch that was not
C5_Witness ==
    \E h \in Handlers :
        /\ Composed(h)
        /\ issues[h] # <<>>
        /\ \E k1, k2 \in DOMAIN filesChanged[h] :
               /\ filesChanged[h][k1] = ChangedFile(File_d_tsx, Patch)
               /\ k1 \in FetchCalled(h)
               /\ filesChanged[h][k2] = ChangedFile(File_a_js, Undefined)
               /\ k2 \notin FetchCalled(h)

WarningIn(text) == LineIndex(SplitLines(text), LockfileWarning) # 0

\* C6: the comment carries the lockfile warning exactly when some changed file
\* is named package.json and none is named package-lock.json.
C6_LockfileWarningIffManifestOnly ==
    \A h \in Handlers :
        Composed(h) =>
            (WarningIn(body[h]) <=>
                /\ \E k \in DOMAIN filesChanged[h] :
                       filesChanged[h][k].filename = Str_package_json
                /\ \A k \in DOMAIN filesChanged[h] :
                       filesChanged[h][k].filename # Str_package_lock)

\* the warning is in a comment composed after a failed fetch, package.json
\* coming last in the list
C6_Witness ==
    \E h \in Handlers :
        /\ Composed(h)
        /\ WarningIn(body[h])
        /\ Len(filesChanged[h]) > 1
        /\ filesChanged[h][Len(filesChanged[h])].filename = Str_package_json
        /\ \E k \in DOMAIN filesChanged[h] : FetchFailed(h, k)

\* C7 as stated: on the example list only a.js is analysed, and the run ends
\* with pkgJsonModified true and pkgLockModified false.
C7_ExampleAsStated ==
    \A h \in Handlers :
        (filesChanged[h] = ExampleFiles /\ Composed(h)) =>
            /\ FetchCalled(h) = {1}
            /\ pkgJsonModified[h] = TRUE
            /\ pkgLockModified[h] = FALSE

\* C7 amended: on the example list only a.js is analysed, and the run ends with
\* pkgJsonModified true and pkgLockModified true (package-lock.json counts
\* by its name, patch or no patch), so the comment carries no lockfile warning.
C7_ExampleLockfileCounted ==
    \A h \in Handlers :
        (filesChanged[h] = ExampleFiles /\ Composed(h)) =>
            /\ FetchCalled(h) = {1}
            /\ pkgJsonModified[h] = TRUE
            /\ pkgLockModified[h] = TRUE
            /\ ~WarningIn(body[h])

\* the handler has returned from a run on the example list in which a.js was measured
C7_Witness ==
    \E h \in Handlers :
        /\ filesChanged[h] = ExampleFiles
        /\ pc[h] = "returned"
        /\ FetchSucceeded(h, 1)

\* the issue lines the k-th file is due, by the limits as the specification
\* words them: the LOC line above 200 lines, then the method line above 8 methods
IssueLinesDue(h, k) ==
    LET filename == filesChanged[h][k].filename
        m        == Measured[FetchResult(h, k).content]
    IN  (IF m.loc > 200 THEN <<LocIssue(filename, m.loc)>> ELSE <<>>)
        \o (IF m.nom > 8 THEN <<NomIssue(filename, m.nom)>> ELSE <<>>)

AllIssueLinesDue(h) ==
    Flatten([k \in DOMAIN filesChanged[h] |->
               IF FetchSucceeded(h, k) THEN IssueLinesDue(h, k) ELSE <<>>])

\* C8: the issue lines of the comment are, in list order, those of each
\* successfully analysed file: its LOC line iff loc > 200, then its method line
\* iff methodCount > 8.  They stand under the issues heading, which gives way to
\* the "no issues" line exactly when there is none.
C8_IssueLinesByThreshold ==
    \A h \in Handlers :
        Composed(h) =>
            LET lines == SplitLines(body[h])
                due   == AllIssueLinesDue(h)
            IN  /\ lines[1] = <<TitleLine>>
                /\ lines[2] = <<>>
                /\ IF due = <<>>
                   THEN /\ lines[3] = <<NoIssuesLine>>
                        /\ LineIndex(lines, IssuesHeading) = 0
                   ELSE /\ lines[3] = <<IssuesHeading>>
                        /\ SubSeq(lines, 4, 3 + Len(due)) = due
                        /\ lines[4 + Len(due)] = <<>>
                        /\ LineIndex(lines, NoIssuesLine) = 0

\* a.js came with 200 code lines and 8 methods, c.ts with 250 and 9: the comment
\* has exactly the two lines of c.ts, the LOC line first
C8_Witness ==
    \E h \in Handlers :
        /\ Composed(h)
        /\ filesChanged[h] = <<ChangedFile(File_a_js, Patch), ChangedFile(File_c_ts, Patch)>>
        /\ FetchResult(h, 1) = Content("atLimits")
        /\ FetchResult(h, 2) = Content("large")
        /\ Measured["atLimits"].loc = 200 /\ Measured["atLimits"].nom = 8
        /\ Measured["large"].loc = 250 /\ Measured["large"].nom = 9
        /\ SubSeq(SplitLines(body[h]), 3, 6) =
             << <<IssuesHeading>>,
                <<"- '", "c", ".", "t", "s", "': LOC = ", "2", "5", "0", " (fire)">>,
                <<"- '", "c", ".", "t", "s", "': Method Count = ", "9", " (brain)">>,
                <<>> >>

\* the TODO fragments found, in file order and then order of appearance, each
\* with the path of its file
FragmentsFound(h) ==
    Flatten([k \in DOMAIN filesChanged[h] |->
               IF FetchSucceeded(h, k)
               THEN LET todos == Measured[FetchResult(h, k).content].todos
                    IN  [i \in DOMAIN todos |->
                           [filename |-> filesChanged[h][k].filename, todo |-> todos[i]]]
               ELSE <<>>])

\* C9: when fragments were found, the TODO section is the heading line, then one
\* line per fragment (tagged with its path, in file order and order of
\* appearance), then the reminder line, no fragment holding a line break; when
\* none was found the section is absent.
C9_TodoSectionOneLinePerFragment ==
    \A h \in Handlers :
        Composed(h) =>
            LET lines == SplitLines(body[h])
                found == FragmentsFound(h)
                at    == LineIndex(lines, TodoHeading)
            IN  IF found = <<>>
                THEN at = 0 /\ LineIndex(lines, TodoReminder) = 0
                ELSE /\ at # 0
                     /\ Len(lines) = at + Len(found) + 2
                     /\ \A i \in DOMAIN found :
                            /\ "\n" \notin Range(found[i].todo)
                            /\ lines[at + i] = TodoEntry(found[i].filename, found[i].todo)
                     /\ lines[at + Len(found) + 1] = <<TodoReminder>>
                     /\ lines[at + Len(found) + 2] = <<>>

\* what invocation h accumulates when it runs alone on its list and on the
\* outcomes its own fetches had
RECURSIVE AloneFrom(_, _, _)
AloneFrom(h, k, acc) ==
    IF k > Len(filesChanged[h]) THEN acc
    ELSE LET file == filesChanged[h][k]
             seen == IF FetchSucceeded(h, k)
                     THEN RecordFindings(file.filename,
                                         Measured[FetchResult(h, k).content], acc)
                     ELSE acc
         IN  AloneFrom(h, k + 1, Bookkeeping(file.filename, seen))

\* C10: however two invocations interleave at their awaits, the body each
\* submits is the body it composes when run alone on the same listFiles and
\* getContent results.
C10_BodyAsIfAlone ==
    \A h \in Handlers :
        Composed(h) => body[h] = Compose(AloneFrom(h, 1, NewFindings))

\* both invocations are waiting for createComment at once, each after a fetch of
\* its own, with different bodies
C10_Witness ==
    /\ Cardinality(Handlers) = 2
    /\ \A h \in Handlers : pc[h] = "createComment" /\ FetchDone(h) # {}
    /\ \E g, h \in Handlers :
           /\ body[g] # body[h]
           /\ WarningIn(body[g]) /\ ~WarningIn(body[h])
           /\ issues[g] = <<>> /\ issues[h] # <<>>
====
